---- MODULE Spec2Model ----
(***************************************************************************)
(* State-machine model of src/src/jdk_manager.rs: the on-disk JDK cache    *)
(* (BASE_PATH), the per-tty activation links (BY_TTY), and the processes   *)
(* that run get_jdk_path / update_jdk / symlink_jdk_path /                 *)
(* get_current_jdk / get_symlink_location against them, one system call    *)
(* per step, with the extraction worker thread of unarchive_tar_gz.        *)
(*                                                                         *)
(* File names, tty paths and archive file names are sequences of           *)
(* one-character strings, so that replace('/', "-"), starts_with("."),     *)
(* ends_with(".tar.gz"), u8::to_string and str::parse::<u8> are computed.  *)
(***************************************************************************)
EXTENDS Integers, Sequences, FiniteSets, TLC

\* ------------------------------------------------------------------------
\* Bounds of the model
\* ------------------------------------------------------------------------

\* Number of times a running process is killed in one behaviour.
MaxKills == 1

\* Longest tty device path enumerated for the sanitisation of
\* get_symlink_location (specification SpecTty).
MaxTtyLen == 3

\* ------------------------------------------------------------------------
\* Options, characters, strings
\* ------------------------------------------------------------------------

None == <<>>

Some(x) == <<x>>

Digits == <<"0", "1", "2", "3", "4", "5", "6", "7", "8", "9">>

DigitVal(c) == CHOOSE d \in 0..9 : Digits[d + 1] = c

IsDigit(c) == \E d \in 0..9 : Digits[d + 1] = c

\* u8::MAX
U8Max == 255

\* u8::to_string: decimal, no sign, no leading zeros.
U8ToString(n) ==
    IF n < 10 THEN <<Digits[n + 1]>>
    ELSE IF n < 100 THEN <<Digits[(n \div 10) + 1], Digits[(n % 10) + 1]>>
    ELSE <<Digits[(n \div 100) + 1], Digits[((n \div 10) % 10) + 1], Digits[(n % 10) + 1]>>

RECURSIVE DecimalValue(_, _)
\* Value of a run of digits, accumulated left to right; stops growing past
\* U8Max (the checked multiplication/addition of from_str_radix overflows).
DecimalValue(s, acc) ==
    IF s = <<>> THEN acc
    ELSE IF acc > U8Max THEN acc
    ELSE DecimalValue(Tail(s), acc * 10 + DigitVal(Head(s)))

\* str::parse::<u8>: an optional leading '+', then at least one digit, only
\* digits, value at most 255 (leading zeros are accepted).
ParseU8(s) ==
    LET body == IF s # <<>> /\ Head(s) = "+" THEN Tail(s) ELSE s
    IN  IF body = <<>> THEN None
        ELSE IF \E i \in 1..Len(body) : ~IsDigit(body[i]) THEN None
        ELSE IF DecimalValue(body, 0) > U8Max THEN None
        ELSE Some(DecimalValue(body, 0))

\* str::starts_with
StartsWith(s, pre) ==
    /\ Len(s) >= Len(pre)
    /\ SubSeq(s, 1, Len(pre)) = pre

\* str::ends_with
EndsWith(s, suf) ==
    /\ Len(s) >= Len(suf)
    /\ SubSeq(s, Len(s) - Len(suf) + 1, Len(s)) = suf

\* str::replace(from, to) for single characters.
Replace(s, from, to) == [i \in 1..Len(s) |-> IF s[i] = from THEN to ELSE s[i]]

\* ------------------------------------------------------------------------
\* Program constants
\* ------------------------------------------------------------------------

\* BASE_PATH, relative to the cache directory.
BASE_PATH == << <<"j", "d", "k", "s">> >>

FINISHED_MARKER == <<".", "j", "d", "k", "_", "m", "a", "r", "k", "e", "r">>

RELEASE == <<"r", "e", "l", "e", "a", "s", "e">>

TAR_GZ == <<".", "t", "a", "r", ".", "g", "z">>

CONTENTS == <<"C", "o", "n", "t", "e", "n", "t", "s">>

HOME == <<"H", "o", "m", "e">>

\* "jdk-download": the prefix TempDir::new_in gives every staging directory.
TMP_PREFIX == <<"j", "d", "k", "-", "d", "o", "w", "n", "l", "o", "a", "d">>

\* std::env::consts::OS, fixed when the program is built.
OsNames == {"linux", "macos"}

\* ------------------------------------------------------------------------
\* Inputs: majors, names in the cache root, archives the collaborator serves
\* ------------------------------------------------------------------------

Majors == {17, 21}

README == <<"R", "E", "A", "D", "M", "E">>

\* Names of entries that may lie in the cache root without being written by
\* this program: a stray file, names that overflow or pad a u8.
StrayNames == {README, <<"3", "0", "0">>, <<"0", "1", "7">>}

Names == {U8ToString(m) : m \in Majors} \cup StrayNames

\* The staging directory names TempDir::new_in can hand out: one for each
\* running process and one for each directory a killed process left behind.
StagingIds == 1..(MaxKills + 2)

\* The name TempDir::new_in gives staging directory i: prefix, '.', random part.
StagingName(i) == TMP_PREFIX \o <<".", Digits[i + 1]>>

\* What toml::from_str::<HashMap<String,String>> and map.get("JAVA_VERSION")
\* make of a release file, by the file's content class: a version string for
\* a parseable file with the key, nothing for a file without the key ("nokey")
\* or one that does not parse ("bad").
Versions == {"v1", "v2"}

JavaVersionOf(content) == IF content \in Versions THEN Some(content) ELSE None

File(path, content) == [p |-> path, c |-> content]

Dir(path) == [p |-> path, c |-> "dir"]

JDK == <<"j", "d", "k">>

BIN == <<"b", "i", "n">>

HIDDEN == <<".", "h">>

\* The tar entries of the archives the collaborator may serve, in stream order.
Archives ==
    [ std1   |-> << Dir(<<JDK>>), File(<<JDK, RELEASE>>, "v1") >>,
      std2   |-> << File(<<JDK, RELEASE>>, "v2"), File(<<JDK, BIN>>, "data") >>,
      flat   |-> << File(<<RELEASE>>, "v1"), File(<<BIN>>, "data") >>,
      hidden |-> << File(<<HIDDEN>>, "data"), File(<<JDK, RELEASE>>, "v1") >>,
      mac    |-> << File(<<JDK, CONTENTS, HOME, RELEASE>>, "v1") >>,
      single |-> << File(<<RELEASE>>, "v1") >>,
      norel  |-> << File(<<JDK, BIN>>, "data") >>,
      nokey  |-> << File(<<JDK, RELEASE>>, "nokey") >>,
      empty  |-> << >> ]

ArchiveIds == DOMAIN Archives

\* File names the Content-Disposition header may carry.
FileNames == { JDK \o TAR_GZ, JDK \o <<".", "z", "i", "p">>, JDK \o <<".", "t", "g", "z">> }

\* ------------------------------------------------------------------------
\* Directory trees: a set of nodes [p: path below the root, c: content],
\* closed under parent directories; c = "dir" for a directory.
\* ------------------------------------------------------------------------

Absent == [k |-> "absent", f |-> {}]

EmptyDir == [k |-> "dir", f |-> {}]

DirOf(tree) == [k |-> "dir", f |-> tree]

RegularFile == [k |-> "file", f |-> {}]

Ancestors(path) == {SubSeq(path, 1, k) : k \in 1..(Len(path) - 1)}

\* tar::Entry::unpack_in with set_overwrite(true): the parents are created,
\* an existing file of the same path is replaced.
UnpackIn(tree, entry) ==
    {n \in tree : n.p # entry.p} \cup {entry} \cup {Dir(a) : a \in Ancestors(entry.p)}

\* Path::exists / is_dir on a path below the root of a tree.
ExistsAt(tree, path) == \E n \in tree : n.p = path

IsDirAt(tree, path) == \E n \in tree : n.p = path /\ n.c = "dir"

\* The names read_dir yields for the root of a tree.
TopNames(tree) == {n.p[1] : n \in tree}

\* The tree below a directory of a tree.
Subtree(tree, pre) ==
    {File(SubSeq(n.p, Len(pre) + 1, Len(n.p)), n.c) :
        n \in {x \in tree : Len(x.p) > Len(pre) /\ StartsWith(x.p, pre)}}

\* The tree without a node and everything below it.
Without(tree, pre) == {n \in tree : ~StartsWith(n.p, pre)}

\* ------------------------------------------------------------------------
\* State
\* ------------------------------------------------------------------------

Procs == {1, 2}

VARIABLES
    os,        \* std::env::consts::OS of the build
    base,      \* whether BASE_PATH exists
    jdks,      \* the entries of BASE_PATH by name: absent, a file, or a directory tree
    staging,   \* the TempDir staging directories of BASE_PATH, by id
    links,     \* the entries of BY_TTY: [n: name, k: "link" | "file", t: target path]
    kills,     \* how many processes were killed so far
    proc       \* per process: the session, the running operation and its locals

vars == <<os, base, jdks, staging, links, kills, proc>>

fsvars == <<base, jdks, staging>>

\* ------------------------------------------------------------------------
\* Release Inspector and Version Registry, on the current cache root
\* ------------------------------------------------------------------------

\* BASE_PATH.join(name), as a directory entry.
Lookup(name) == IF base /\ name \in Names THEN jdks[name] ELSE Absent

\* path.join(FINISHED_MARKER).exists()
MarkerExists(name) ==
    /\ Lookup(name).k = "dir"
    /\ ExistsAt(Lookup(name).f, <<FINISHED_MARKER>>)

\* path.join("release").exists()
ReleaseExists(name) ==
    /\ Lookup(name).k = "dir"
    /\ ExistsAt(Lookup(name).f, <<RELEASE>>)

\* std::fs::read_to_string(release) and the TOML lookup of JAVA_VERSION.
ReadRelease(name) ==
    IF ReleaseExists(name) /\ ~IsDirAt(Lookup(name).f, <<RELEASE>>)
    THEN JavaVersionOf((CHOOSE n \in Lookup(name).f : n.p = <<RELEASE>>).c)
    ELSE None

\* get_jdk_version without the marker check of lines 48-51.
get_jdk_version_unmarked(major) ==
    IF ~ReleaseExists(U8ToString(major)) THEN None ELSE ReadRelease(U8ToString(major))

get_jdk_version(major) ==
    LET name == U8ToString(major)
    IN  IF ~MarkerExists(name) THEN None
        ELSE IF ~ReleaseExists(name) THEN None
        ELSE ReadRelease(name)

\* The names BASE_PATH.read_dir() yields.
ReadDirNames ==
    IF ~base THEN {}
    ELSE {n \in Names : jdks[n].k # "absent"}
         \cup {StagingName(i) : i \in {j \in StagingIds : staging[j].k # "absent"}}

RECURSIVE SeqOfSet(_)
\* One enumeration of a set (read_dir's order is unspecified; the operators
\* below are used through their elements or after the sort).
SeqOfSet(S) ==
    IF S = {} THEN <<>>
    ELSE LET x == CHOOSE y \in S : TRUE IN <<x>> \o SeqOfSet(S \ {x})

RECURSIVE FilterMapParse(_)
\* filter_map(|name| name.parse::<u8>().ok())
FilterMapParse(names) ==
    IF names = <<>> THEN <<>>
    ELSE ParseU8(Head(names)) \o FilterMapParse(Tail(names))

\* Ok(Vec<u8>): empty when BASE_PATH is missing (ErrorKind::NotFound).
get_all_jdk_majors == FilterMapParse(SeqOfSet(ReadDirNames))

RECURSIVE FilterMapVersion(_)
\* filter_map(|m| get_jdk_version(m).map(|v| (m, v)))
FilterMapVersion(majors) ==
    IF majors = <<>> THEN <<>>
    ELSE (IF get_jdk_version(Head(majors)) = None THEN <<>>
          ELSE << <<Head(majors), get_jdk_version(Head(majors))[1]>> >>)
         \o FilterMapVersion(Tail(majors))

RECURSIVE InsertByKey(_, _)
\* Insert after every element whose key is not greater: a stable sort step.
InsertByKey(sorted, x) ==
    IF sorted = <<>> THEN <<x>>
    ELSE IF Head(sorted)[1] <= x[1] THEN <<Head(sorted)>> \o InsertByKey(Tail(sorted), x)
    ELSE <<x>> \o sorted

RECURSIVE SortByKey(_, _)
\* Vec::sort_by_key(|v| v.0): stable, ascending by major.
SortByKey(v, acc) ==
    IF v = <<>> THEN acc ELSE SortByKey(Tail(v), InsertByKey(acc, Head(v)))

\* map_available_jdk_versions without the sort of line 113.
map_available_jdk_versions_unsorted(majors) == FilterMapVersion(majors)

map_available_jdk_versions(majors) == SortByKey(FilterMapVersion(majors), <<>>)

RECURSIVE Orders(_)
\* The orders in which read_dir may yield a set of names.
Orders(S) ==
    IF S = {} THEN {<<>>}
    ELSE UNION {{<<x>> \o q : q \in Orders(S \ {x})} : x \in S}

Range(f) == {f[i] : i \in DOMAIN f}

\* ------------------------------------------------------------------------
\* Sessions, results, process records
\* ------------------------------------------------------------------------

TTY1 == <<"/", "d", "e", "v", "/", "p", "t", "s", "/", "1">>

TTY2 == <<"/", "d", "e", "v", "/", "p", "t", "s", "/", "2">>

\* A device node outside /dev/pts whose name holds the '-' of the sanitiser.
TTY1D == <<"/", "d", "e", "v", "/", "p", "t", "s", "-", "1">>

Ok(v) == [t |-> "Ok", v |-> v]

Err(chain) == [t |-> "Err", v |-> chain]

Killed(at) == [t |-> "Killed", v |-> at]

NoRes == [t |-> "None", v |-> <<>>]

\* BASE_PATH.join(major.to_string())
JdkPath(major) == Append(BASE_PATH, U8ToString(major))

\* Path::file_name of a non-empty path
FileNameOf(path) == path[Len(path)]

\* tty.replace('/', "-"): the name of the session's entry in BY_TTY.
TtyAsName(tty) == Replace(tty, "/", "-")

\* The entry of BY_TTY of that name, if any.
LinkAt(name) ==
    IF \E l \in links : l.n = name
    THEN Some(CHOOSE l \in links : l.n = name)
    ELSE None

\* The BY_TTY entry of a process's session (none without a terminal).
SessionLink(p) ==
    IF proc[p].tty = None THEN None ELSE LinkAt(TtyAsName(proc[p].tty[1]))

NoPre ==
    [majors |-> <<>>, vers |-> <<>>, ver |-> None, marker |-> FALSE,
     fs |-> <<>>, link |-> None, links |-> {}]

\* What an operation finds when it starts (history, for the claims): the
\* Registry's results and the cache for get_jdk_path and update_jdk on major
\* m, the entries of BY_TTY for the operations of a session.
Snapshot(p, cmd, m) ==
    IF cmd \in {"path", "update"}
    THEN [NoPre EXCEPT !.majors = get_all_jdk_majors,
                       !.vers = map_available_jdk_versions(get_all_jdk_majors),
                       !.ver = get_jdk_version(m),
                       !.marker = MarkerExists(U8ToString(m)),
                       !.fs = <<base, jdks, staging>>]
    ELSE [NoPre EXCEPT !.link = SessionLink(p), !.links = links]

IdleProc(tty) ==
    [tty |-> tty, cmd |-> "none", pc |-> "idle", major |-> 0,
     url |-> <<>>, arch |-> "empty", stg |-> 0, ents |-> {},
     wpc |-> "off", widx |-> 0, sym |-> <<>>,
     res |-> NoRes, reqs |-> 0, renamed |-> FALSE, panicked |-> FALSE,
     seen |-> {}, staged |-> {}, pre |-> NoPre]

\* The record of a process whose operation has returned (or was killed): the
\* locals are gone; the operation, its result and its history (among it the
\* staging directory it was given and what it read there) stay readable
\* until the process exits.
Returned(pr, result) ==
    [IdleProc(pr.tty) EXCEPT !.pc = "done", !.cmd = pr.cmd, !.major = pr.major,
                             !.res = result, !.reqs = pr.reqs,
                             !.renamed = pr.renamed, !.panicked = pr.panicked,
                             !.seen = pr.seen, !.staged = pr.staged,
                             !.stg = pr.stg, !.pre = pr.pre]

Begin(p, cmd, m, pc) ==
    [IdleProc(proc[p].tty) EXCEPT !.cmd = cmd, !.major = m, !.pc = pc,
                                  !.pre = Snapshot(p, cmd, m)]

\* update_jdk returns r to get_jdk_path or to the top level; get_jdk_path
\* returns to symlink_jdk_path (line 118) or to the top level.
InstallReturn(pr, r) ==
    IF r.t = "Err"
    THEN Returned(pr, IF pr.cmd = "use"
                      THEN Err(<<"Failed to get JDK path">> \o r.v) ELSE r)
    ELSE IF pr.cmd = "update" THEN Returned(pr, Ok(<<>>))
    ELSE IF pr.cmd = "use" THEN [pr EXCEPT !.pc = "loc"]
    ELSE Returned(pr, Ok(JdkPath(pr.major)))

\* Drop of the TempDir: the staging directory is removed if it still exists.
DropTempDir(id) == [staging EXCEPT ![id] = Absent]

\* ------------------------------------------------------------------------
\* Entry points
\* ------------------------------------------------------------------------

StartGetJdkPath(p, M) ==
    /\ proc[p].pc = "idle"
    /\ \E m \in M : proc' = [proc EXCEPT ![p] = Begin(p, "path", m, "gp_check")]
    /\ UNCHANGED <<os, base, jdks, staging, links, kills>>

StartUpdateJdk(p, M) ==
    /\ proc[p].pc = "idle"
    /\ \E m \in M : proc' = [proc EXCEPT ![p] = Begin(p, "update", m, "uj_fetch")]
    /\ UNCHANGED <<os, base, jdks, staging, links, kills>>

\* symlink_jdk_path removing the session's old link before it resolves the JDK.
StartSymlinkJdkPathRemovesFirst(p, M) ==
    /\ proc[p].pc = "idle"
    /\ \E m \in M : proc' = [proc EXCEPT ![p] = Begin(p, "use", m, "gp_check")]
    /\ links' = IF proc[p].tty = None THEN links
                ELSE {l \in links : l.n # TtyAsName(proc[p].tty[1])}
    /\ UNCHANGED <<os, base, jdks, staging, kills>>

StartSymlinkJdkPath(p, M) ==
    /\ proc[p].pc = "idle"
    /\ \E m \in M : proc' = [proc EXCEPT ![p] = Begin(p, "use", m, "gp_check")]
    /\ UNCHANGED <<os, base, jdks, staging, links, kills>>

StartGetCurrentJdk(p) ==
    /\ proc[p].pc = "idle"
    /\ proc' = [proc EXCEPT ![p] = Begin(p, "current", 0, "loc")]
    /\ UNCHANGED <<os, base, jdks, staging, links, kills>>

StartGetSymlinkLocation(p) ==
    /\ proc[p].pc = "idle"
    /\ proc' = [proc EXCEPT ![p] = Begin(p, "where", 0, "loc")]
    /\ UNCHANGED <<os, base, jdks, staging, links, kills>>

\* get_all_jdk_majors, lines 72-106, on the cache root as it is, read_dir
\* yielding the entries in any order.
ListMajors(p) ==
    /\ proc[p].pc = "idle"
    /\ \E order \in Orders(ReadDirNames) :
            proc' = [proc EXCEPT ![p] =
                Returned(Begin(p, "majors", 0, "idle"), Ok(FilterMapParse(order)))]
    /\ UNCHANGED <<os, base, jdks, staging, links, kills>>

\* map_available_jdk_versions, lines 108-115, on the majors get_all_jdk_majors
\* has just returned.
ListVersions(p) ==
    /\ proc[p].pc = "idle"
    /\ \E order \in Orders(ReadDirNames) :
            proc' = [proc EXCEPT ![p] =
                Returned(Begin(p, "versions", 0, "idle"),
                         Ok(map_available_jdk_versions(FilterMapParse(order))))]
    /\ UNCHANGED <<os, base, jdks, staging, links, kills>>

\* The process is killed: its threads stop where they are and nothing is
\* cleaned up (no TempDir drop).
Kill(p) ==
    /\ proc[p].pc \notin {"idle", "done"}
    /\ kills < MaxKills
    /\ kills' = kills + 1
    /\ proc' = [proc EXCEPT ![p] = Returned(proc[p], Killed(proc[p].pc))]
    /\ UNCHANGED <<os, base, jdks, staging, links>>

\* The process exits; the session's next command is a new process.
Exit(p) ==
    /\ proc[p].pc = "done"
    /\ proc' = [proc EXCEPT ![p] = IdleProc(proc[p].tty)]
    /\ UNCHANGED <<os, base, jdks, staging, links, kills>>

\* ------------------------------------------------------------------------
\* get_jdk_path and update_jdk
\* ------------------------------------------------------------------------

\* get_jdk_path without its early return: every call installs.
GetJdkPathAlwaysUpdates(p) ==
    /\ proc[p].pc = "gp_check"
    /\ proc' = [proc EXCEPT ![p].pc = "uj_fetch"]
    /\ UNCHANGED <<os, base, jdks, staging, links, kills>>

\* get_jdk_path returning early only for a marked directory that also holds
\* a release file.
GetJdkPathChecksRelease(p) ==
    LET pr == proc[p] IN
    /\ pr.pc = "gp_check"
    /\ proc' = [proc EXCEPT ![p] =
            IF MarkerExists(U8ToString(pr.major)) /\ ReleaseExists(U8ToString(pr.major))
            THEN InstallReturn(pr, Ok(<<>>))
            ELSE [pr EXCEPT !.pc = "uj_fetch"]]
    /\ UNCHANGED <<os, base, jdks, staging, links, kills>>

\* get_jdk_path, lines 128-133: the marker check.
GetJdkPath(p) ==
    LET pr == proc[p] IN
    /\ pr.pc = "gp_check"
    /\ proc' = [proc EXCEPT ![p] =
            IF MarkerExists(U8ToString(pr.major))
            THEN InstallReturn(pr, Ok(<<>>))
            ELSE [pr EXCEPT !.pc = "uj_fetch"]]
    /\ UNCHANGED <<os, base, jdks, staging, links, kills>>

\* What lines 139-148 can end in without a file name.
FetchErrors ==
    { <<"get_latest_jdk_binary">>, <<"Failed to get JDK binary">>,
      <<"no content disposition">>, <<"parse_filename">> }

\* update_jdk removing the install directory before it asks the collaborator.
UpdateFetchAfterRemove(p, A) ==
    LET pr == proc[p]
        asked == [pr EXCEPT !.reqs = 1]
    IN
    /\ pr.pc = "uj_fetch"
    /\ jdks' = [jdks EXCEPT ![U8ToString(pr.major)] = Absent]
    /\ \/ \E e \in FetchErrors :
            proc' = [proc EXCEPT ![p] = InstallReturn(asked, Err(e))]
       \/ \E fn \in FileNames, a \in A :
            /\ EndsWith(fn, TAR_GZ) \/ a = CHOOSE x \in A : TRUE
            /\ proc' = [proc EXCEPT ![p] =
                    [asked EXCEPT !.url = fn, !.arch = a, !.pc = "uj_exists"]]
    /\ UNCHANGED <<os, base, staging, links, kills>>

\* update_jdk, lines 139-148: the request to the collaborator, the status
\* check and the file name of the Content-Disposition header.
UpdateFetch(p, A) ==
    LET pr == proc[p]
        asked == [pr EXCEPT !.reqs = 1]
    IN
    /\ pr.pc = "uj_fetch"
    /\ \/ \E e \in FetchErrors :
            proc' = [proc EXCEPT ![p] = InstallReturn(asked, Err(e))]
       \/ \E fn \in FileNames, a \in A :
            \* the body of a response is read only for a .tar.gz name
            /\ EndsWith(fn, TAR_GZ) \/ a = CHOOSE x \in A : TRUE
            /\ proc' = [proc EXCEPT ![p] =
                    [asked EXCEPT !.url = fn, !.arch = a, !.pc = "uj_exists"]]
    /\ UNCHANGED <<os, base, jdks, staging, links, kills>>

\* update_jdk, line 150: path.exists()
UpdateExists(p) ==
    LET pr == proc[p] IN
    /\ pr.pc = "uj_exists"
    /\ proc' = [proc EXCEPT ![p].pc =
            IF Lookup(U8ToString(pr.major)).k # "absent" THEN "uj_remove" ELSE "uj_mkdir"]
    /\ UNCHANGED <<os, base, jdks, staging, links, kills>>

\* update_jdk, lines 151-152: remove_dir_all(&path), one top-level entry
\* (with what is below it) per step, in any order, then the directory itself.
UpdateRemove(p) ==
    LET pr == proc[p]
        name == U8ToString(pr.major)
        e == Lookup(name)
    IN
    /\ pr.pc = "uj_remove"
    /\ \/ /\ e.k = "dir" /\ e.f # {}
          /\ \E top \in TopNames(e.f) :
                jdks' = [jdks EXCEPT ![name] = DirOf(Without(e.f, <<top>>))]
          /\ UNCHANGED proc
       \/ /\ e.k = "dir" /\ e.f = {}
          /\ jdks' = [jdks EXCEPT ![name] = Absent]
          /\ proc' = [proc EXCEPT ![p].pc = "uj_mkdir"]
       \/ \* not a directory (any more), or an I/O error
          /\ proc' = [proc EXCEPT ![p] =
                InstallReturn(pr, Err(<<"Unable to clean JDK folder">>))]
          /\ UNCHANGED jdks
    /\ UNCHANGED <<os, base, staging, links, kills>>

\* update_jdk writing the marker as soon as the directory is created.
UpdateCreateDirMarksFirst(p) ==
    /\ proc[p].pc = "uj_mkdir"
    /\ base' = TRUE
    /\ jdks' = [jdks EXCEPT ![U8ToString(proc[p].major)] =
            DirOf({File(<<FINISHED_MARKER>>, "")})]
    /\ proc' = [proc EXCEPT ![p].pc = "uj_tmp"]
    /\ UNCHANGED <<os, staging, links, kills>>

\* update_jdk, lines 154-159: create_dir_all(&path)
UpdateCreateDir(p) ==
    LET pr == proc[p]
        name == U8ToString(pr.major)
    IN
    /\ pr.pc = "uj_mkdir"
    /\ \/ /\ Lookup(name).k # "file"
          /\ base' = TRUE
          /\ jdks' = [jdks EXCEPT ![name] = IF Lookup(name).k = "dir" THEN @ ELSE EmptyDir]
          /\ proc' = [proc EXCEPT ![p].pc = "uj_tmp"]
       \/ /\ proc' = [proc EXCEPT ![p] =
                InstallReturn(pr, Err(<<"Unable to create directories to JDK folder">>))]
          /\ UNCHANGED <<base, jdks>>
    /\ UNCHANGED <<os, staging, links, kills>>

\* update_jdk, lines 160-161: TempDir::new_in(BASE_PATH, "jdk-download")
UpdateTempDir(p) ==
    LET pr == proc[p]
        free == {i \in StagingIds : staging[i].k = "absent"}
    IN
    /\ pr.pc = "uj_tmp"
    /\ \/ /\ base /\ free # {}
          /\ LET id == CHOOSE i \in free : \A j \in free : i <= j IN
             /\ staging' = [staging EXCEPT ![id] = EmptyDir]
             /\ proc' = [proc EXCEPT ![p] = [pr EXCEPT !.stg = id, !.pc = "fe_suffix"]]
       \/ /\ proc' = [proc EXCEPT ![p] =
                InstallReturn(pr, Err(<<"Failed to create temporary directory">>))]
          /\ UNCHANGED staging
    /\ UNCHANGED <<os, base, jdks, links, kills>>

\* ------------------------------------------------------------------------
\* finish_extract and unarchive_tar_gz
\* ------------------------------------------------------------------------

\* finish_extract failing with the TempDir leaked instead of dropped.
FailExtractKeepsStaging(p, msg) ==
    /\ proc' = [proc EXCEPT ![p] = InstallReturn(proc[p], Err(<<msg>>))]
    /\ UNCHANGED staging

\* update_jdk's and_then is skipped on Err: the TempDir is dropped.
FailExtract(p, msg) ==
    /\ proc' = [proc EXCEPT ![p] = InstallReturn(proc[p], Err(<<msg>>))]
    /\ staging' = DropTempDir(proc[p].stg)

\* finish_extract, lines 178-187: the suffix test; unarchive_tar_gz spawns
\* the worker thread (line 230).
ExtractSuffix(p) ==
    LET pr == proc[p] IN
    /\ pr.pc = "fe_suffix"
    /\ IF EndsWith(pr.url, TAR_GZ)
       THEN /\ proc' = [proc EXCEPT ![p] = [pr EXCEPT !.pc = "ua_join", !.wpc = "gz"]]
            /\ UNCHANGED staging
       ELSE FailExtract(p, "Don't know how to handle")
    /\ UNCHANGED <<os, base, jdks, links, kills>>

\* Worker thread, line 231: libflate::gzip::Decoder::new(..).unwrap()
WorkerDecoder(p) ==
    /\ proc[p].wpc = "gz"
    /\ proc' = [proc EXCEPT ![p] = [@ EXCEPT !.wpc = "unpack", !.widx = 1]]
    /\ UNCHANGED <<os, base, jdks, staging, links, kills>>

\* Worker thread, lines 235-239: the next entry is unpacked into the
\* staging directory.
WorkerUnpack(p) ==
    LET pr == proc[p]
        entries == Archives[pr.arch]
    IN
    /\ pr.wpc = "unpack"
    /\ pr.widx <= Len(entries)
    /\ staging[pr.stg].k = "dir"
    /\ staging' = [staging EXCEPT ![pr.stg] = DirOf(UnpackIn(@.f, entries[pr.widx]))]
    /\ proc' = [proc EXCEPT ![p].widx = @ + 1]
    /\ UNCHANGED <<os, base, jdks, links, kills>>

\* Worker thread, lines 240-241: after the last entry both bars are finished.
WorkerFinish(p) ==
    LET pr == proc[p] IN
    /\ pr.wpc = "unpack"
    /\ pr.widx > Len(Archives[pr.arch])
    /\ proc' = [proc EXCEPT ![p].wpc = "done"]
    /\ UNCHANGED <<os, base, jdks, staging, links, kills>>

\* Worker thread: one of the unwrap()s of lines 231-238 panics (bad gzip
\* header, bad tar entry, I/O error while unpacking); unwinding drops both
\* progress bars, the thread ends and its JoinHandle was discarded.
WorkerPanic(p) ==
    /\ proc[p].wpc \in {"gz", "unpack"}
    /\ proc' = [proc EXCEPT ![p] = [@ EXCEPT !.wpc = "panic", !.panicked = TRUE]]
    /\ UNCHANGED <<os, base, jdks, staging, links, kills>>

\* unarchive_tar_gz returning without the join of line 244.
JoinBarsWithoutWait(p) ==
    /\ proc[p].pc = "ua_join"
    /\ proc' = [proc EXCEPT ![p].pc = "fe_readdir"]
    /\ UNCHANGED <<os, base, jdks, staging, links, kills>>

\* unarchive_tar_gz, line 244: all_bars.join() returns once both bars are
\* finished or dropped; unarchive_tar_gz returns ().
JoinBars(p) ==
    /\ proc[p].pc = "ua_join"
    /\ proc[p].wpc \in {"done", "panic"}
    /\ proc' = [proc EXCEPT ![p].pc = "fe_readdir"]
    /\ UNCHANGED <<os, base, jdks, staging, links, kills>>

\* finish_extract reading the staging directory without the filter of
\* lines 194-202: hidden entries are counted.
ExtractReadDirCountsHidden(p) ==
    LET pr == proc[p] IN
    /\ pr.pc = "fe_readdir"
    /\ staging[pr.stg].k = "dir"
    /\ proc' = [proc EXCEPT ![p] = [pr EXCEPT
            !.ents = TopNames(staging[pr.stg].f),
            !.staged = staging[pr.stg].f,
            !.pc = "fe_rename"]]
    /\ UNCHANGED <<os, base, jdks, staging, links, kills>>

\* finish_extract, lines 189-204: the non-hidden entries of the staging
\* directory (staged: what the directory holds at that moment, history).
ExtractReadDir(p) ==
    LET pr == proc[p] IN
    /\ pr.pc = "fe_readdir"
    /\ \/ /\ staging[pr.stg].k = "dir"
          /\ proc' = [proc EXCEPT ![p] = [pr EXCEPT
                !.ents = {n \in TopNames(staging[pr.stg].f) : ~StartsWith(n, <<".">>)},
                !.staged = staging[pr.stg].f,
                !.pc = "fe_rename"]]
          /\ UNCHANGED staging
       \/ FailExtract(p, "Failed to read temp dir")
    /\ UNCHANGED <<os, base, jdks, links, kills>>

\* finish_extract, lines 205-214: from_dir, as a path below the staging
\* directory (the empty path is the staging directory itself).
FromDir(ents) ==
    IF Cardinality(ents) = 1
    THEN LET x == CHOOSE n \in ents : TRUE
         IN  IF os = "macos" THEN <<x, CONTENTS, HOME>> ELSE <<x>>
    ELSE <<>>

\* Whether rename(2) moves `from` of the staging tree onto the entry.
CanRename(tree, from, dest) ==
    IF from = <<>> THEN dest.k = "absent" \/ (dest.k = "dir" /\ dest.f = {})
    ELSE /\ ExistsAt(tree, from)
         /\ IF IsDirAt(tree, from)
            THEN dest.k = "absent" \/ (dest.k = "dir" /\ dest.f = {})
            ELSE dest.k # "dir"

\* The entry at the destination after the rename.
Renamed(tree, from) ==
    IF from = <<>> \/ IsDirAt(tree, from) THEN DirOf(Subtree(tree, from)) ELSE RegularFile

\* finish_extract, lines 216-217: std::fs::rename(from_dir, &path)
ExtractRename(p) ==
    LET pr == proc[p]
        name == U8ToString(pr.major)
        tree == staging[pr.stg].f
        from == FromDir(pr.ents)
    IN
    /\ pr.pc = "fe_rename"
    /\ \/ /\ base /\ staging[pr.stg].k = "dir"
          /\ CanRename(tree, from, Lookup(name))
          /\ jdks' = [jdks EXCEPT ![name] = Renamed(tree, from)]
          /\ staging' = [staging EXCEPT ![pr.stg] =
                IF from = <<>> THEN Absent ELSE DirOf(Without(tree, from))]
          /\ proc' = [proc EXCEPT ![p] = [pr EXCEPT !.renamed = TRUE, !.pc = "fe_marker"]]
       \/ /\ FailExtract(p, "Unable to move to JDK folder")
          /\ UNCHANGED jdks
    /\ UNCHANGED <<os, base, links, kills>>

\* finish_extract, line 219: File::create(path.join(FINISHED_MARKER))
ExtractMarker(p) ==
    LET pr == proc[p]
        name == U8ToString(pr.major)
    IN
    /\ pr.pc = "fe_marker"
    /\ \/ /\ Lookup(name).k = "dir"
          /\ ~IsDirAt(Lookup(name).f, <<FINISHED_MARKER>>)
          /\ jdks' = [jdks EXCEPT ![name] = DirOf(UnpackIn(@.f, File(<<FINISHED_MARKER>>, "")))]
          /\ proc' = [proc EXCEPT ![p].pc = "uj_cleanup"]
          /\ UNCHANGED staging
       \/ /\ FailExtract(p, "Unable to create marker")
          /\ UNCHANGED jdks
    /\ UNCHANGED <<os, base, links, kills>>

\* update_jdk, lines 162-169: the staging directory is closed if it still
\* exists.
UpdateCleanup(p) ==
    LET pr == proc[p] IN
    /\ pr.pc = "uj_cleanup"
    /\ \/ /\ staging' = DropTempDir(pr.stg)
          /\ proc' = [proc EXCEPT ![p] = InstallReturn(pr, Ok(<<>>))]
       \/ /\ staging[pr.stg].k = "dir"
          /\ proc' = [proc EXCEPT ![p] =
                InstallReturn(pr, Err(<<"Failed to cleanup temp dir">>))]
          /\ UNCHANGED staging
    /\ UNCHANGED <<os, base, jdks, links, kills>>

\* ------------------------------------------------------------------------
\* Activation: get_symlink_location, symlink_jdk_path, get_current_jdk
\* ------------------------------------------------------------------------

\* BY_TTY.join(tty_as_name), relative to the temporary directory.
BY_TTY == << <<"j", "p", "r", "e", "-", "b", "y", "-", "t", "t", "y">> >>

\* The caller's context for an error of get_symlink_location: line 119 adds
\* one, the `?` of line 34 adds none.
LocationError(pr, chain) ==
    Returned(pr, Err(IF pr.cmd = "use"
                     THEN <<"Failed to get symlink location">> \o chain ELSE chain))

\* get_symlink_location, lines 22-31, called from symlink_jdk_path (line 119),
\* get_current_jdk (line 34) or directly.
GetSymlinkLocation(p) ==
    LET pr == proc[p] IN
    /\ pr.pc = "loc"
    /\ \/ /\ pr.tty = None
          /\ proc' = [proc EXCEPT ![p] = LocationError(pr, <<"Not a TTY">>)]
       \/ \* create_dir_all(BY_TTY) can fail only while BY_TTY is missing
          /\ pr.tty # None
          /\ links = {}
          /\ proc' = [proc EXCEPT ![p] =
                LocationError(pr, <<"Failed to create by-tty directory">>)]
       \/ /\ pr.tty # None
          /\ LET name == TtyAsName(pr.tty[1]) IN
             proc' = [proc EXCEPT ![p] =
                IF pr.cmd = "where" THEN Returned(pr, Ok(Append(BY_TTY, name)))
                ELSE [pr EXCEPT !.sym = name,
                                !.pc = IF pr.cmd = "use" THEN "sl_meta" ELSE "cj_read"]]
    /\ UNCHANGED <<os, base, jdks, staging, links, kills>>

\* symlink_jdk_path, line 120: symlink.symlink_metadata().is_ok()
SymlinkMetadata(p) ==
    LET pr == proc[p] IN
    /\ pr.pc = "sl_meta"
    /\ proc' = [proc EXCEPT ![p].pc =
            IF LinkAt(pr.sym) # None THEN "sl_remove" ELSE "sl_link"]
    /\ UNCHANGED <<os, base, jdks, staging, links, kills>>

\* symlink_jdk_path, line 121: std::fs::remove_file(&symlink)
SymlinkRemove(p) ==
    LET pr == proc[p] IN
    /\ pr.pc = "sl_remove"
    /\ \/ /\ LinkAt(pr.sym) # None
          /\ links' = {l \in links : l.n # pr.sym}
          /\ proc' = [proc EXCEPT ![p].pc = "sl_link"]
       \/ /\ proc' = [proc EXCEPT ![p] =
                Returned(pr, Err(<<"Failed to remove old symlink">>))]
          /\ UNCHANGED links
    /\ UNCHANGED <<os, base, jdks, staging, kills>>

\* symlink_jdk_path, line 123: std::os::unix::fs::symlink(path, symlink)
SymlinkCreate(p) ==
    LET pr == proc[p] IN
    /\ pr.pc = "sl_link"
    /\ \/ /\ LinkAt(pr.sym) = None
          /\ links' = links \cup {[n |-> pr.sym, k |-> "link", t |-> JdkPath(pr.major)]}
          /\ proc' = [proc EXCEPT ![p] = Returned(pr, Ok(<<>>))]
       \/ /\ proc' = [proc EXCEPT ![p] =
                Returned(pr, Err(<<"Failed to make new symlink">>))]
          /\ UNCHANGED links
    /\ UNCHANGED <<os, base, jdks, staging, kills>>

NotLinked == Err(<<"Not linked to an actual JDK">>)

\* What get_current_jdk is to report in the current state: the version of the
\* major its link names, if the link exists, its target's last component
\* parses and get_jdk_version has a version for it.
CurrentVersion(p) ==
    LET l == SessionLink(p) IN
    IF l = None \/ l[1].k # "link" THEN None
    ELSE IF ParseU8(FileNameOf(l[1].t)) = None THEN None
    ELSE get_jdk_version(ParseU8(FileNameOf(l[1].t))[1])

\* The record of a process at a step of get_current_jdk, with what the session's
\* current version is at that step added to its history.
Observed(p) == [proc[p] EXCEPT !.seen = @ \cup {CurrentVersion(p)}]

\* get_current_jdk, lines 35-39: read_link, file_name, parse::<u8>
CurrentReadLink(p) ==
    LET pr == Observed(p)
        l == LinkAt(pr.sym)
    IN
    /\ pr.pc = "cj_read"
    /\ proc' = [proc EXCEPT ![p] =
            IF l = None \/ l[1].k # "link" THEN Returned(pr, Err(<<"No current JDK">>))
            ELSE IF ParseU8(FileNameOf(l[1].t)) = None THEN Returned(pr, NotLinked)
            ELSE [pr EXCEPT !.major = ParseU8(FileNameOf(l[1].t))[1], !.pc = "gv_marker"]]
    /\ UNCHANGED <<os, base, jdks, staging, links, kills>>

\* get_jdk_version, lines 48-51, for get_current_jdk (line 40)
VersionMarker(p) ==
    LET pr == Observed(p) IN
    /\ pr.pc = "gv_marker"
    /\ proc' = [proc EXCEPT ![p] =
            IF MarkerExists(U8ToString(pr.major))
            THEN [pr EXCEPT !.pc = "gv_release"] ELSE Returned(pr, NotLinked)]
    /\ UNCHANGED <<os, base, jdks, staging, links, kills>>

\* get_jdk_version, lines 52-56
VersionRelease(p) ==
    LET pr == Observed(p) IN
    /\ pr.pc = "gv_release"
    /\ proc' = [proc EXCEPT ![p] =
            IF ReleaseExists(U8ToString(pr.major))
            THEN [pr EXCEPT !.pc = "gv_read"] ELSE Returned(pr, NotLinked)]
    /\ UNCHANGED <<os, base, jdks, staging, links, kills>>

\* get_jdk_version, lines 57-69
VersionRead(p) ==
    LET pr == Observed(p)
        v == ReadRelease(U8ToString(pr.major))
    IN
    /\ pr.pc = "gv_read"
    /\ proc' = [proc EXCEPT ![p] =
            IF v = None THEN Returned(pr, NotLinked) ELSE Returned(pr, Ok(v[1]))]
    /\ UNCHANGED <<os, base, jdks, staging, links, kills>>

\* ------------------------------------------------------------------------
\* Specifications
\* ------------------------------------------------------------------------

\* A link that some other tool left in BY_TTY: its target is no JDK of the cache.
ForeignTarget == << <<"o", "p", "t">>, JDK >>

\* What a session may find at its place in BY_TTY before its first activation.
ForeignLinks(tty) ==
    { {},
      {[n |-> TtyAsName(tty), k |-> "file", t |-> <<>>]},
      {[n |-> TtyAsName(tty), k |-> "link", t |-> ForeignTarget]} }

InitFs ==
    /\ os \in OsNames
    /\ base = FALSE
    /\ jdks = [n \in Names |-> Absent]
    /\ staging = [i \in StagingIds |-> Absent]
    /\ kills = 0

\* The steps of update_jdk in one process whose archive stream is sound, with
\* the collaborator serving the archives A.
SoundUpdate(p, A) ==
    \/ UpdateFetch(p, A)
    \/ UpdateExists(p)
    \/ UpdateRemove(p)
    \/ UpdateCreateDir(p)
    \/ UpdateTempDir(p)
    \/ ExtractSuffix(p)
    \/ WorkerDecoder(p)
    \/ WorkerUnpack(p)
    \/ WorkerFinish(p)
    \/ JoinBars(p)
    \/ ExtractReadDir(p)
    \/ ExtractRename(p)
    \/ ExtractMarker(p)
    \/ UpdateCleanup(p)

\* The steps of update_jdk in one process, with the collaborator serving the
\* archives A.
Update(p, A) ==
    \/ SoundUpdate(p, A)
    \/ WorkerPanic(p)

\* The steps of get_jdk_path, which may go on into update_jdk.
Pipeline(p, A) ==
    \/ GetJdkPath(p)
    \/ Update(p, A)

Install(p, M, A) ==
    \/ StartGetJdkPath(p, M)
    \/ StartUpdateJdk(p, M)
    \/ Pipeline(p, A)

Activate(p, M) ==
    \/ StartSymlinkJdkPath(p, M)
    \/ GetSymlinkLocation(p)
    \/ SymlinkMetadata(p)
    \/ SymlinkRemove(p)
    \/ SymlinkCreate(p)

Current(p) ==
    \/ StartGetCurrentJdk(p)
    \/ CurrentReadLink(p)
    \/ VersionMarker(p)
    \/ VersionRelease(p)
    \/ VersionRead(p)

\* Spec: installs and reinstalls of one major by one process at a time, on a
\* cache that starts empty; the process may be killed at any step.
Init ==
    /\ InitFs
    /\ links = {}
    /\ proc = [p \in Procs |-> IdleProc(None)]

Next ==
    \/ Install(1, {17}, {"std1", "std2", "norel"})
    \/ Kill(1)
    \/ Exit(1)

Spec == Init /\ [][Next]_vars

\* SpecActivate: one session, with or without a terminal, that activates,
\* asks for its current JDK and for its link path, installing on demand.
InitActivate ==
    /\ InitFs
    /\ \E t \in {Some(TTY1), None} :
        /\ proc = [p \in Procs |-> IdleProc(IF p = 1 THEN t ELSE None)]
        /\ links \in (IF t = None THEN {{}} ELSE ForeignLinks(TTY1))

NextActivate ==
    \/ Pipeline(1, {"std1", "std2", "norel"})
    \/ Activate(1, {17})
    \/ Current(1)
    \/ StartGetSymlinkLocation(1)
    \/ Exit(1)

SpecActivate == InitActivate /\ [][NextActivate]_vars

\* SpecTty: two sessions ask for their link path; the device paths are all
\* strings of at most MaxTtyLen characters over '/', '-' and a letter.
TtyChars == {"/", "-", "a"}

TtyPaths == UNION {[1..n -> TtyChars] : n \in 1..MaxTtyLen}

InitTty ==
    /\ InitFs
    /\ links = {}
    /\ proc \in [Procs -> {IdleProc(t) : t \in {Some(d) : d \in TtyPaths} \cup {None}}]

NextTty ==
    \E p \in Procs :
        \/ StartGetSymlinkLocation(p)
        \/ GetSymlinkLocation(p)
        \/ Exit(p)

SpecTty == InitTty /\ [][NextTty]_vars

\* SpecSessions: two sessions on distinct terminal devices; session 1
\* activates 17 and session 2 activates 21, installing on demand, in any
\* interleaving.
InitSessions ==
    /\ base = FALSE
    /\ jdks = [n \in Names |-> Absent]
    /\ staging = [i \in StagingIds |-> Absent]
    /\ kills = 0
    /\ links = {}
    /\ os = "linux"
    /\ \E t2 \in {TTY1D, TTY2} :
        proc = [p \in Procs |-> IdleProc(Some(IF p = 1 THEN TTY1 ELSE t2))]

NextSessions ==
    \/ Activate(1, {17})
    \/ Activate(2, {21})
    \/ \E p \in Procs : Pipeline(p, {"std1"}) \/ Exit(p)

SpecSessions == InitSessions /\ [][NextSessions]_vars

\* The install directory get_jdk_path leaves for an archive on this build.
InstalledFrom(a) ==
    LET RECURSIVE Staged(_, _)
        Staged(tree, i) ==
            IF i > Len(Archives[a]) THEN tree
            ELSE Staged(UnpackIn(tree, Archives[a][i]), i + 1)
        tree == Staged({}, 1)
        from == FromDir({n \in TopNames(tree) : ~StartsWith(n, <<".">>)})
    IN  DirOf(UnpackIn(Subtree(tree, from), File(<<FINISHED_MARKER>>, "")))

\* SpecReinstall: session 2 has activated 17, installed from std1, and asks
\* for its current JDK, again and again, while process 1 reinstalls 17 once
\* with update_jdk.
InitReinstall ==
    /\ os = "linux"
    /\ base = TRUE
    /\ jdks = [n \in Names |-> IF n = U8ToString(17) THEN InstalledFrom("std1") ELSE Absent]
    /\ staging = [i \in StagingIds |-> Absent]
    /\ kills = 0
    /\ links = {[n |-> TtyAsName(TTY1), k |-> "link", t |-> JdkPath(17)]}
    /\ proc = [p \in Procs |-> IdleProc(IF p = 2 THEN Some(TTY1) ELSE None)]

NextReinstall ==
    \/ StartUpdateJdk(1, {17})
    \/ Update(1, {"std1", "std2"})
    \/ Current(2)
    \/ GetSymlinkLocation(2)
    \/ Exit(2)

SpecReinstall == InitReinstall /\ [][NextReinstall]_vars

\* SpecNormalize: one process installs and reinstalls 17 from archives with
\* one, several or no top-level entries, hidden entries and the macOS layout,
\* on either build.
NormalizeArchives == {"hidden", "flat", "mac", "empty", "single", "std2"}

NextNormalize ==
    \/ Install(1, {17}, NormalizeArchives)
    \/ Exit(1)

SpecNormalize == Init /\ [][NextNormalize]_vars

\* SpecRegistry: the Version Registry lists a cache root that may be missing
\* and may hold installs, unmarked or unversioned directories, stray entries
\* and a staging directory.
InitRegistry ==
    /\ os = "linux"
    /\ kills = 0
    /\ links = {}
    /\ proc = [p \in Procs |-> IdleProc(None)]
    /\ base \in BOOLEAN
    /\ staging \in [StagingIds -> {Absent, EmptyDir}]
    /\ \A i \in StagingIds : staging[i].k # "absent" => base /\ i = 1
    /\ jdks \in [Names -> {Absent, RegularFile, EmptyDir, InstalledFrom("std1"),
                            InstalledFrom("std2"), InstalledFrom("norel"),
                            DirOf({File(<<RELEASE>>, "v1")})}]
    /\ \A n \in Names : jdks[n].k # "absent" => base
    /\ jdks[README].k \in {"absent", "file"}
    /\ jdks[<<"3", "0", "0">>] \in {Absent, InstalledFrom("std1")}
    /\ jdks[<<"0", "1", "7">>] \in {Absent, InstalledFrom("std2")}

NextRegistry ==
    \/ ListMajors(1)
    \/ ListVersions(1)
    \/ Exit(1)

SpecRegistry == InitRegistry /\ [][NextRegistry]_vars

\* SpecJoin: one process that is never killed installs and reinstalls 17; the
\* operating system schedules its worker thread and its invoking thread, so
\* neither waits forever for a step it can take.
Worker(p) ==
    \/ WorkerDecoder(p)
    \/ WorkerUnpack(p)
    \/ WorkerFinish(p)
    \/ WorkerPanic(p)

NextJoin ==
    \/ Install(1, {17}, {"std2", "hidden", "empty"})
    \/ Exit(1)

SpecJoin ==
    /\ Init
    /\ [][NextJoin]_vars
    /\ WF_vars(Worker(1))
    /\ WF_vars(JoinBars(1))

\* SpecRace: two processes run get_jdk_path for 17 on an empty cache at the
\* same time, process 1 once and process 2 again and again; the archive is
\* sound and nobody is killed.
InitRace ==
    /\ os = "linux"
    /\ base = FALSE
    /\ jdks = [n \in Names |-> Absent]
    /\ staging = [i \in StagingIds |-> Absent]
    /\ kills = 0
    /\ links = {}
    /\ proc = [p \in Procs |-> IdleProc(None)]

RaceArchives == {"std1"}

NextRace ==
    \/ \E p \in Procs :
        \/ StartGetJdkPath(p, {17})
        \/ GetJdkPath(p)
        \/ SoundUpdate(p, RaceArchives)
    \/ Exit(2)

SpecRace == InitRace /\ [][NextRace]_vars

\* ------------------------------------------------------------------------
\* Claims
\* ------------------------------------------------------------------------

InstallOps == {"path", "update"}

\* The positions of an install at which the marker of line 219 is not yet written.
PreMarkerSteps ==
    {"gp_check", "uj_fetch", "uj_exists", "uj_remove", "uj_mkdir", "uj_tmp",
     "fe_suffix", "ua_join", "fe_readdir", "fe_rename", "fe_marker"}

\* The majors map_available_jdk_versions pairs with a version.
VersionedMajors == {x[1] : x \in Range(map_available_jdk_versions(get_all_jdk_majors))}

ListedMajors == Range(get_all_jdk_majors)

Returns(pr) == pr.pc = "done" /\ pr.res.t # "Killed"

\* C1: while get_jdk_path installs a major whose marker was absent, the marker
\* is present only once the worker has stopped and the rename of line 216 into
\* the install path has succeeded.
C1_MarkerOnlyAfterRename ==
    \A p \in Procs :
        LET pr == proc[p] IN
        (pr.cmd = "path" /\ ~pr.pre.marker /\ MarkerExists(U8ToString(pr.major)))
            => (pr.renamed /\ pr.wpc \notin {"gz", "unpack"})

C1_Witness ==
    \E p \in Procs :
        /\ proc[p].cmd = "path" /\ ~proc[p].pre.marker
        /\ proc[p].pc = "uj_cleanup" /\ proc[p].renamed
        /\ MarkerExists(U8ToString(proc[p].major))

\* C2: when the extraction worker fails while streaming, get_jdk_path returns
\* an error and no marker is created for the major.
C2_ExtractionFailureIsFatal ==
    \A p \in Procs :
        LET pr == proc[p] IN
        (pr.cmd = "path" /\ pr.panicked)
            => /\ ~MarkerExists(U8ToString(pr.major))
               /\ Returns(pr) => pr.res.t = "Err"

\* C3: an install killed at a step before the marker is written leaves
\* get_all_jdk_majors, map_available_jdk_versions and get_jdk_version as they
\* were before the install started, reinstalls included.
C3_AbortLeavesRegistryUnchanged ==
    \A p \in Procs :
        LET pr == proc[p] IN
        (pr.pc = "done" /\ pr.cmd \in InstallOps /\ pr.res.t = "Killed"
            /\ pr.res.v \in PreMarkerSteps)
            => /\ ListedMajors = Range(pr.pre.majors)
               /\ map_available_jdk_versions(get_all_jdk_majors) = pr.pre.vers
               /\ get_jdk_version(pr.major) = pr.pre.ver

\* C4 as claimed: a major is listed by get_all_jdk_majors, and paired with a
\* version by map_available_jdk_versions, if and only if its directory holds
\* the marker.
C4_ReportedIffMarker ==
    LET listed == ListedMajors
        versioned == VersionedMajors
    IN  \A m \in Majors :
            /\ (m \in listed) <=> MarkerExists(U8ToString(m))
            /\ (m \in versioned) <=> MarkerExists(U8ToString(m))

\* C4 as amended: a major is paired with a version if and only if its
\* directory holds the marker and a release file that yields JAVA_VERSION (so
\* never without the marker); get_all_jdk_majors lists it if and only if the
\* cache root has an entry whose name parses to it, marker or not.
C4_VersionedIffMarkerAndRelease ==
    LET listed == ListedMajors
        versioned == VersionedMajors
    IN  \A m \in Majors :
            LET e == jdks[U8ToString(m)] IN
            /\ (m \in versioned) <=>
                    /\ base /\ e.k = "dir"
                    /\ \E n \in e.f : n.p = <<FINISHED_MARKER>>
                    /\ \E n \in e.f : n.p = <<RELEASE>> /\ n.c \in Versions
            /\ (m \in listed) <=> \E n \in ReadDirNames : ParseU8(n) = Some(m)

C4_Witness ==
    \E m \in Majors :
        /\ MarkerExists(U8ToString(m)) /\ ~ReleaseExists(U8ToString(m))
        /\ m \in ListedMajors /\ m \notin VersionedMajors

\* C5: get_jdk_path on a major whose marker is present returns its path
\* without any request to the collaborator and without changing the cache.
C5_InstalledIsIdempotent ==
    \A p \in Procs :
        LET pr == proc[p] IN
        (pr.cmd = "path" /\ pr.pre.marker)
            => /\ pr.reqs = 0
               /\ <<base, jdks, staging>> = pr.pre.fs
               /\ pr.pc \in {"gp_check", "done"}
               /\ Returns(pr) => (pr.res.t = "Ok" /\ pr.res.v = JdkPath(pr.major))

C5_Witness ==
    \E p \in Procs :
        /\ proc[p].cmd = "path" /\ proc[p].pre.marker
        /\ proc[p].pc = "done" /\ proc[p].res.t = "Ok"

\* C8: when activate returns, with success or with an error, a session that
\* had a link before the call still has one.
C8_ActivateKeepsLink ==
    \A p \in Procs :
        LET pr == proc[p] IN
        (pr.cmd = "use" /\ Returns(pr) /\ pr.pre.link # None) => SessionLink(p) # None

\* C9: without a terminal every operation of the Activation Manager fails
\* with the error of line 25 and leaves BY_TTY as it was.
C9_NoTerminalFailsWithNotATty ==
    \A p \in Procs :
        LET pr == proc[p] IN
        (pr.tty = None /\ pr.cmd \in {"where", "current", "use"} /\ Returns(pr))
            => /\ pr.res.t = "Err"
               /\ pr.res.v[Len(pr.res.v)] = "Not a TTY"
               /\ links = pr.pre.links

\* C6: two sessions on distinct terminal devices that activate different
\* majors, in any interleaving, end with one link each: session 1's targets
\* its major's install directory and session 2's targets its own.
C6_SessionsIsolated ==
    (/\ \A p \in Procs : proc[p].cmd = "use" /\ proc[p].pc = "done" /\ proc[p].res.t = "Ok"
     /\ proc[1].tty # proc[2].tty
     /\ proc[1].major # proc[2].major)
        => \A p \in Procs :
                /\ SessionLink(p) # None
                /\ SessionLink(p)[1].k = "link"
                /\ SessionLink(p)[1].t = JdkPath(proc[p].major)

\* C7: the path get_symlink_location returns is the same for the same
\* device path and different for any two different device paths.
C7_LinkPathInjective ==
    \A p, q \in Procs :
        (/\ proc[p].cmd = "where" /\ proc[p].pc = "done" /\ proc[p].res.t = "Ok"
         /\ proc[q].cmd = "where" /\ proc[q].pc = "done" /\ proc[q].res.t = "Ok")
            => (proc[p].tty = proc[q].tty <=> proc[p].res.v = proc[q].res.v)

\* C10: when get_current_jdk returns in a session with a terminal, it returns
\* Ok(v) only for a version v that get_jdk_version had for the linked major at
\* one of the call's own steps (never a version no valid install had), and an
\* error only if at one of them there was none.
C10_CurrentIsNeverStale ==
    \A p \in Procs :
        LET pr == proc[p] IN
        (pr.cmd = "current" /\ pr.tty # None /\ Returns(pr))
            => /\ pr.res.t = "Ok" => Some(pr.res.v) \in pr.seen
               /\ pr.res.t = "Err" => (pr.seen = {} \/ None \in pr.seen)

\* The non-hidden top-level names of a tree.
NonHidden(tree) == {n \in TopNames(tree) : n[1] # "."}

\* C11: after a successful install the install directory holds the marker
\* and, besides it, the contents of the one non-hidden top-level entry the
\* staging directory held (of its Contents/Home on macOS), whatever hidden
\* entries lay beside it, or the whole staging directory, hidden entries
\* included, when it held no or several non-hidden entries.
C11_InstallRootIsNormalized ==
    \A p \in Procs :
        LET pr == proc[p]
            foo == CHOOSE n \in NonHidden(pr.staged) : TRUE
            below == IF os = "macos" THEN <<foo, CONTENTS, HOME>> ELSE <<foo>>
            expected ==
                IF Cardinality(NonHidden(pr.staged)) = 1
                THEN {[p |-> SubSeq(n.p, Len(below) + 1, Len(n.p)), c |-> n.c] :
                        n \in {x \in pr.staged :
                                 Len(x.p) > Len(below) /\ SubSeq(x.p, 1, Len(below)) = below}}
                ELSE pr.staged
        IN  (pr.cmd \in InstallOps /\ Returns(pr) /\ pr.res.t = "Ok" /\ pr.renamed)
                => Lookup(U8ToString(pr.major)) =
                        DirOf(expected \cup {File(<<FINISHED_MARKER>>, "")})

C11_Witness ==
    \E p \in Procs :
        /\ proc[p].cmd \in InstallOps /\ Returns(proc[p]) /\ proc[p].res.t = "Ok"
        /\ proc[p].renamed
        /\ Cardinality(NonHidden(proc[p].staged)) = 1
        /\ \E n \in TopNames(proc[p].staged) : n[1] = "."

\* The majors some entry of the cache root is named for.
Candidates == {m \in 0..U8Max : \E n \in ReadDirNames : ParseU8(n) = Some(m)}

\* The entries of the cache root whose major has a version.
VersionedEntries ==
    {n \in ReadDirNames :
        ParseU8(n) # None /\ get_jdk_version(ParseU8(n)[1]) # None}

EntryBefore(pr) ==
    IF pr.pre.fs[1] THEN pr.pre.fs[2][U8ToString(pr.major)] ELSE Absent

\* C13: an install that fails with the unsupported-format error of line 186
\* leaves the install directory of its major exactly as it was, a marked
\* install that update_jdk was to replace included.
C13_UnsupportedFormatTouchesNothing ==
    \A p \in Procs :
        LET pr == proc[p] IN
        (pr.cmd \in InstallOps /\ Returns(pr) /\ pr.res.t = "Err"
            /\ pr.res.v = <<"Don't know how to handle">>)
            => Lookup(U8ToString(pr.major)) = EntryBefore(pr)

\* The positions of finish_extract after unarchive_tar_gz has returned.
NormalizationSteps == {"fe_readdir", "fe_rename", "fe_marker", "uj_cleanup"}

\* C14: the invoking thread reads the staging directory, renames and writes
\* the marker only when the worker has unpacked its last entry or has
\* terminated, and a thread that waits at the join of line 244 eventually
\* goes on to read the staging directory.
C14_NormalizationWaitsForWorker ==
    /\ [](\A p \in Procs :
            proc[p].pc \in NormalizationSteps => proc[p].wpc \in {"done", "panic"})
    /\ \A p \in Procs : (proc[p].pc = "ua_join") ~> (proc[p].pc = "fe_readdir")

C14_Witness ==
    \E p \in Procs :
        /\ proc[p].pc = "fe_readdir" /\ proc[p].wpc = "done"
        /\ staging[proc[p].stg].f # {}

\* The install directories a complete install from the archives A leaves.
CompleteInstalls(A) == {InstalledFrom(a) : a \in A}

\* C15: get_jdk_path trusts the marker alone: whenever it finds the marker
\* at its check (line 129) it returns the install path as installed, whatever
\* the directory holds; with two concurrent installers of the same major that
\* directory can be one that holds the marker and no complete JDK tree (the
\* state of C15_Witness).
C15_MarkedIsReturnedAsInstalled ==
    [][\A p \in Procs :
        (/\ proc[p].pc = "gp_check"
         /\ proc'[p] # proc[p]
         /\ MarkerExists(U8ToString(proc[p].major)))
            => /\ proc'[p].pc = "done"
               /\ proc'[p].res = Ok(JdkPath(proc[p].major))
               /\ UNCHANGED <<base, jdks, staging>>]_vars

C15_Witness ==
    \E p \in Procs :
        /\ proc[p].cmd = "path" /\ proc[p].pc = "done"
        /\ proc[p].res = Ok(JdkPath(proc[p].major))
        /\ ~proc[p].renamed
        /\ MarkerExists(U8ToString(proc[p].major))
        /\ Lookup(U8ToString(proc[p].major)) = DirOf({File(<<FINISHED_MARKER>>, "")})
        /\ Lookup(U8ToString(proc[p].major)) \notin CompleteInstalls(RaceArchives)
        /\ \A q \in Procs : ~proc[q].panicked

\* C16: an install killed before its marker is written leaves its major not
\* installed for the next get_jdk_path (no marker), unless it left the
\* install directory as it found it.
C16_KilledInstallIsNotInstalled ==
    \A p \in Procs :
        LET pr == proc[p] IN
        (pr.cmd \in InstallOps /\ pr.pc = "done" /\ pr.res.t = "Killed"
            /\ pr.res.v \in PreMarkerSteps)
            => \/ ~MarkerExists(U8ToString(pr.major))
               \/ Lookup(U8ToString(pr.major)) = EntryBefore(pr)

\* An update_jdk that has returned after TempDir::new_in gave it a staging
\* directory (stg, kept as history).
ReturnedWithStaging(pr) ==
    pr.cmd \in InstallOps /\ Returns(pr) /\ pr.stg \in StagingIds

C18_FailedResolveKeepsLinks ==
    \A p \in Procs :
        LET pr == proc[p] IN
        (pr.cmd = "use" /\ Returns(pr) /\ pr.res.t = "Err"
            /\ Head(pr.res.v) \in {"Failed to get JDK path", "Failed to get symlink location"})
            => /\ links = pr.pre.links
               /\ SessionLink(p) = pr.pre.link

C18_Witness ==
    \E p \in Procs :
        /\ proc[p].cmd = "use" /\ Returns(proc[p]) /\ proc[p].res.t = "Err"
        /\ Head(proc[p].res.v) = "Failed to get JDK path"
        /\ proc[p].pre.link # None /\ proc[p].pre.link[1].k = "link"

\* C19: an install or reinstall that fails at the fetch (collaborator error,
\* non-success response, no Content-Disposition, unparseable file name)
\* leaves the cache root, the marker and the version of its major as they
\* were; nothing is removed while no file name has been obtained.
C19_FailedFetchKeepsInstall ==
    \A p \in Procs :
        LET pr == proc[p] IN
        /\ (pr.cmd \in InstallOps /\ pr.pc \in {"gp_check", "uj_fetch"})
                => <<base, jdks, staging>> = pr.pre.fs
        /\ (pr.cmd \in InstallOps /\ Returns(pr) /\ pr.res.t = "Err"
                /\ pr.res.v \in FetchErrors)
                => /\ <<base, jdks, staging>> = pr.pre.fs
                   /\ MarkerExists(U8ToString(pr.major)) = pr.pre.marker
                   /\ get_jdk_version(pr.major) = pr.pre.ver
                   /\ map_available_jdk_versions(get_all_jdk_majors) = pr.pre.vers

C19_Witness ==
    \E p \in Procs :
        /\ proc[p].cmd = "update" /\ Returns(proc[p]) /\ proc[p].res.t = "Err"
        /\ proc[p].res.v = <<"no content disposition">>
        /\ proc[p].pre.ver # None
        /\ get_jdk_version(proc[p].major) = proc[p].pre.ver

====
